---- MODULE Spec2Model ----
(***************************************************************************)
(* A model of the browser music player: the AudioService wrapper around    *)
(* the Web Audio graph (services/audioService.js), the StorageService      *)
(* wrapper around localStorage (services/storageService.js), and the       *)
(* playlist/playback handlers of App.jsx, AudioPlayer.jsx and              *)
(* TrackList.jsx.  Each of the three parts has its own specification       *)
(* (SpecAudio, SpecPlayer, SpecStorage) over the one set of variables.     *)
(*                                                                         *)
(* Volumes are counted in tenths: 7 stands for 0.7, 10 for 1.0.            *)
(***************************************************************************)
EXTENDS Integers, Sequences, FiniteSets, TLC

\* ------------------------------------------------------------- bounds ---
MaxContexts == 2
MaxChains == 2
MaxCalls == 2
MaxElements == 2

\* -------------------------------------------------- program constants ---
FftSize == 256
EmptyArrayLength == 128
ByteMax == 255
GainDefault == 10
VolumeMax == 10

Contexts == 1..MaxContexts
Chains == 1..MaxChains
Calls == 1..MaxCalls
Elements == 1..MaxElements
\* levels handed to setVolume, in tenths: -0.5, 0.3, 1.5
VolumeInputs == {-5, 3, 15}
\* magnitudes the analyser may report in a bin
Magnitudes == {0, ByteMax}

VARIABLES
  \* AudioService fields (0 stands for null)
  audioContext, isInitialized, sourceNode, analyserNode, gainNode,
  dataArray, bufferLength, audioElement,
  \* the platform's audio subsystem
  platformAudio, ctxState, conn, elSourced, gainParam, chainCtx,
  \* asynchronous AudioService calls in flight, the call running its
  \* synchronous section, and the last completed call with its result
  calls, running, lastOp,
  \* the browser's localStorage, whether its quota is exhausted, the last
  \* exported document, and the last StorageService call with its result
  localStorage, quotaExceeded, exported, storageOp,
  \* App state: the playlist, the selected track, the playing flag, the time
  tracks, currentTrack, app_isPlaying, app_currentTime,
  \* AudioPlayer state: its own playing flag and time, the loading flag, the
  \* error message, the media element in audioRef
  player_isPlaying, player_currentTime, isLoading, error, audioRef,
  \* App.handleFileUpload calls waiting for their FileReader, the next track
  \* identifier, and the last handler run
  uploads, nextId, lastEvent,
  \* the ids of the tracks whose duration App.handleDurationChange has written,
  \* and the visualizer: whether a frame callback is scheduled (animationRef)
  \* and whether the canvas shows a frame
  durationWrites, visualization

audioVars == <<audioContext, isInitialized, sourceNode, analyserNode, gainNode,
               dataArray, bufferLength, audioElement, platformAudio, ctxState,
               conn, elSourced, gainParam, chainCtx, calls, running, lastOp>>

storageVars == <<localStorage, quotaExceeded, exported, storageOp>>

playerVars == <<tracks, currentTrack, app_isPlaying, app_currentTime,
                player_isPlaying, player_currentTime, isLoading, error, audioRef,
                uploads, nextId, lastEvent, durationWrites, visualization>>

vars == <<audioVars, storageVars, playerVars>>

\* ======================================================================
\*                          AudioService
\* ======================================================================

\* new Uint8Array(n): n zero bytes
Uint8Array(n) == [i \in 1..n |-> 0]

NullArray == [null |-> TRUE, bytes |-> <<>>]
ArrayOf(bytes) == [null |-> FALSE, bytes |-> bytes]

\* AnalyserNode.frequencyBinCount: half the transform size
frequencyBinCountFull(fftSize) == fftSize
frequencyBinCount(fftSize) == fftSize \div 2

\* Math.max(0, Math.min(1, volume)), in tenths
clampedVolume(volume) ==
  LET m == IF volume < VolumeMax THEN volume ELSE VolumeMax
  IN  IF m > 0 THEN m ELSE 0

\* the gain AudioParam of a fresh GainNode: value 1, nothing scheduled
NewGainParam == [value |-> GainDefault, pending |-> -1]

\* a new asynchronous call takes the first idle slot
FreeCall(c) ==
  /\ calls[c].op = "idle"
  /\ \A d \in 1..(c - 1) : calls[d].op # "idle"

IdleCall == [op |-> "idle", pc |-> "idle", el |-> 0, ctx |-> 0]
NoOp == [op |-> "none", arg |-> 0, status |-> "none", data |-> <<>>]
Returned(op, arg, data) == [op |-> op, arg |-> arg, status |-> "ok", data |-> data]
Threw(op, arg) == [op |-> op, arg |-> arg, status |-> "threw", data |-> <<>>]

\* the context a `new AudioContext()` yields: the lowest one not yet created
NewContext ==
  IF \E n \in Contexts : ctxState[n] = "absent"
  THEN CHOOSE n \in Contexts :
         ctxState[n] = "absent" /\ \A m \in Contexts : m < n => ctxState[m] # "absent"
  ELSE 0

EdgesOf(k) == {e \in conn : e[2] = k}
\* a chain's nodes are collectable once nothing refers to them and none is connected
ChainFree(k) == k \notin {sourceNode, analyserNode, gainNode} /\ EdgesOf(k) = {}
NewChain ==
  IF \E k \in Chains : ChainFree(k)
  THEN CHOOSE k \in Chains : ChainFree(k) /\ \A m \in Chains : m < k => ~ChainFree(m)
  ELSE 0

\* the media elements a caller may hand to setupAudio: one seen before, or the
\* next new one (new elements are interchangeable)
SeenElements == elSourced \cup {calls[c].el : c \in Calls} \cup {audioElement}
CallableElements ==
  {el \in Elements : el \in SeenElements \/ \A e \in 1..(el - 1) : e \in SeenElements}

\* AudioNode.disconnect(): drops every outgoing connection of the node
DisconnectLeaky(cn, kind, node) == cn
Disconnect(cn, kind, node) == cn \ {<<kind, node>>}

\* cleanup(): the connections left once each non-null node is disconnected
CleanupConn ==
  LET c1 == IF sourceNode # 0 THEN Disconnect(conn, "source", sourceNode) ELSE conn
      c2 == IF analyserNode # 0 THEN Disconnect(c1, "analyser", analyserNode) ELSE c1
  IN  IF gainNode # 0 THEN Disconnect(c2, "gain", gainNode) ELSE c2

\* the chains whose gain node feeds the output destination
ConnectedChains == {k \in Chains : <<"gain", k>> \in conn}

AudioInit ==
  /\ audioContext = 0
  /\ isInitialized = FALSE
  /\ sourceNode = 0
  /\ analyserNode = 0
  /\ gainNode = 0
  /\ dataArray = NullArray
  /\ bufferLength = 0
  /\ audioElement = 0
  /\ platformAudio \in BOOLEAN
  /\ ctxState = [n \in Contexts |-> "absent"]
  /\ conn = {}
  /\ elSourced = {}
  /\ gainParam = NewGainParam
  /\ chainCtx = 0
  /\ calls = [c \in Calls |-> IdleCall]
  /\ running = 0
  /\ lastOp = NoOp

\* initialize(): the part up to its first await, or to its return
initialize(c) ==
  /\ UNCHANGED <<storageVars, playerVars>>
  /\ running = 0
  /\ FreeCall(c)
  /\ UNCHANGED <<sourceNode, analyserNode, gainNode, dataArray, bufferLength,
                 audioElement, platformAudio, conn, elSourced, gainParam,
                 chainCtx, running>>
  /\ IF isInitialized
     THEN /\ lastOp' = Returned("initialize", 0, <<>>)
          /\ UNCHANGED <<audioContext, isInitialized, ctxState, calls>>
     ELSE IF ~platformAudio
     THEN /\ lastOp' = Threw("initialize", 0)
          /\ UNCHANGED <<audioContext, isInitialized, ctxState, calls>>
     ELSE /\ NewContext # 0
          /\ \E s \in {"suspended", "running"} :
               /\ audioContext' = NewContext
               /\ ctxState' = [ctxState EXCEPT ![NewContext] = s]
               /\ IF s = "suspended"
                  THEN /\ calls' = [calls EXCEPT ![c] =
                              [op |-> "initialize", pc |-> "awaitResume",
                               el |-> 0, ctx |-> NewContext]]
                       /\ lastOp' = NoOp
                       /\ UNCHANGED isInitialized
                  ELSE /\ isInitialized' = TRUE
                       /\ lastOp' = Returned("initialize", 0, <<>>)
                       /\ UNCHANGED calls

\* setupAudio(audioElement): the part up to its first await; when the service
\* is initialized there is none and the call runs on into cleanup()
setupAudio(c, el) ==
  /\ UNCHANGED <<storageVars, playerVars>>
  /\ running = 0
  /\ FreeCall(c)
  /\ UNCHANGED <<dataArray, bufferLength, audioElement, platformAudio, elSourced>>
  /\ IF isInitialized
     THEN /\ conn' = CleanupConn
          /\ sourceNode' = 0 /\ analyserNode' = 0 /\ gainNode' = 0
          /\ gainParam' = NewGainParam /\ chainCtx' = 0
          /\ calls' = [calls EXCEPT ![c] =
                 [op |-> "setupAudio", pc |-> "create", el |-> el, ctx |-> 0]]
          /\ running' = c
          /\ lastOp' = NoOp
          /\ UNCHANGED <<audioContext, isInitialized, ctxState>>
     ELSE IF ~platformAudio
     THEN /\ lastOp' = NoOp
          /\ UNCHANGED <<audioContext, isInitialized, ctxState, conn, sourceNode,
                         analyserNode, gainNode, gainParam, chainCtx, calls, running>>
     ELSE /\ NewContext # 0
          /\ \E s \in {"suspended", "running"} :
               /\ audioContext' = NewContext
               /\ ctxState' = [ctxState EXCEPT ![NewContext] = s]
               /\ isInitialized' = (s = "running")
               /\ calls' = [calls EXCEPT ![c] =
                      [op |-> "setupAudio",
                       pc |-> IF s = "suspended" THEN "awaitResume" ELSE "awaitInit",
                       el |-> el, ctx |-> NewContext]]
          /\ lastOp' = NoOp
          /\ UNCHANGED <<conn, sourceNode, analyserNode, gainNode, gainParam,
                         chainCtx, running>>

\* resumeContext(): awaits resume() when a context exists and is suspended
resumeContext(c) ==
  /\ UNCHANGED <<storageVars, playerVars>>
  /\ running = 0
  /\ FreeCall(c)
  /\ UNCHANGED <<audioContext, isInitialized, sourceNode, analyserNode, gainNode,
                 dataArray, bufferLength, audioElement, platformAudio, ctxState,
                 conn, elSourced, gainParam, chainCtx, running>>
  /\ IF audioContext # 0 /\ ctxState[audioContext] = "suspended"
     THEN /\ calls' = [calls EXCEPT ![c] =
                 [op |-> "resumeContext", pc |-> "awaitResume",
                  el |-> 0, ctx |-> audioContext]]
          /\ lastOp' = NoOp
     ELSE /\ lastOp' = NoOp
          /\ UNCHANGED calls

\* the platform resolves the resume() a call awaits, and the call goes on
resumeResolved(c) ==
  /\ UNCHANGED <<storageVars, playerVars>>
  /\ running = 0
  /\ calls[c].pc = "awaitResume"
  /\ ctxState[calls[c].ctx] \in {"suspended", "running"}
  /\ ctxState' = [ctxState EXCEPT ![calls[c].ctx] = "running"]
  /\ UNCHANGED <<audioContext, sourceNode, analyserNode, gainNode, dataArray,
                 bufferLength, audioElement, platformAudio, conn, elSourced,
                 gainParam, chainCtx, running>>
  /\ CASE calls[c].op = "initialize" ->
            /\ isInitialized' = TRUE
            /\ calls' = [calls EXCEPT ![c] = IdleCall]
            /\ lastOp' = Returned("initialize", 0, <<>>)
       [] calls[c].op = "setupAudio" ->
            /\ isInitialized' = TRUE
            /\ calls' = [calls EXCEPT ![c].pc = "awaitInit"]
            /\ lastOp' = NoOp
       [] OTHER ->
            /\ calls' = [calls EXCEPT ![c] = IdleCall]
            /\ lastOp' = NoOp
            /\ UNCHANGED isInitialized

\* the platform rejects the resume() a call awaits: the context was closed
resumeRejected(c) ==
  /\ UNCHANGED <<storageVars, playerVars>>
  /\ running = 0
  /\ calls[c].pc = "awaitResume"
  /\ ctxState[calls[c].ctx] = "closed"
  /\ calls' = [calls EXCEPT ![c] = IdleCall]
  /\ lastOp' = IF calls[c].op = "initialize" THEN Threw("initialize", 0) ELSE NoOp
  /\ UNCHANGED <<audioContext, isInitialized, sourceNode, analyserNode, gainNode,
                 dataArray, bufferLength, audioElement, platformAudio, ctxState,
                 conn, elSourced, gainParam, chainCtx, running>>

\* setupAudio after `await this.initialize()`: cleanup()
setupAudioCleanup(c) ==
  /\ UNCHANGED <<storageVars, playerVars>>
  /\ running = 0
  /\ calls[c].pc = "awaitInit"
  /\ conn' = CleanupConn
  /\ sourceNode' = 0 /\ analyserNode' = 0 /\ gainNode' = 0
  /\ gainParam' = NewGainParam /\ chainCtx' = 0
  /\ calls' = [calls EXCEPT ![c].pc = "create"]
  /\ running' = c
  /\ lastOp' = NoOp
  /\ UNCHANGED <<audioContext, isInitialized, dataArray, bufferLength,
                 audioElement, platformAudio, ctxState, elSourced>>

\* setupAudio after cleanup(): create, configure and connect the nodes; a null
\* context or an element that already has a source node throws
setupAudioCreate(c) ==
  /\ UNCHANGED <<storageVars, playerVars>>
  /\ running = c
  /\ calls[c].pc = "create"
  /\ audioElement' = calls[c].el
  /\ running' = 0
  /\ calls' = [calls EXCEPT ![c] = IdleCall]
  /\ UNCHANGED <<audioContext, isInitialized, platformAudio, ctxState>>
  /\ IF audioContext = 0 \/ calls[c].el \in elSourced
     THEN /\ lastOp' = NoOp
          /\ UNCHANGED <<sourceNode, analyserNode, gainNode, dataArray,
                         bufferLength, conn, elSourced, gainParam, chainCtx>>
     ELSE /\ NewChain # 0
          /\ sourceNode' = NewChain
          /\ analyserNode' = NewChain
          /\ gainNode' = NewChain
          /\ elSourced' = elSourced \cup {calls[c].el}
          /\ chainCtx' = audioContext
          /\ gainParam' = NewGainParam
          /\ bufferLength' = frequencyBinCount(FftSize)
          /\ dataArray' = ArrayOf(Uint8Array(frequencyBinCount(FftSize)))
          /\ conn' = conn \cup {<<"source", NewChain>>, <<"analyser", NewChain>>,
                                <<"gain", NewChain>>}
          /\ lastOp' = NoOp

\* cleanup(): disconnect and drop the three nodes
cleanup ==
  /\ UNCHANGED <<storageVars, playerVars>>
  /\ running = 0
  /\ conn' = CleanupConn
  /\ sourceNode' = 0 /\ analyserNode' = 0 /\ gainNode' = 0
  /\ gainParam' = NewGainParam /\ chainCtx' = 0
  /\ lastOp' = NoOp
  /\ UNCHANGED <<audioContext, isInitialized, dataArray, bufferLength,
                 audioElement, platformAudio, ctxState, elSourced, calls, running>>

\* destroy(): cleanup(), close the context, reset the fields
destroy ==
  /\ UNCHANGED <<storageVars, playerVars>>
  /\ running = 0
  /\ conn' = CleanupConn
  /\ sourceNode' = 0 /\ analyserNode' = 0 /\ gainNode' = 0
  /\ ctxState' = IF audioContext # 0 /\ ctxState[audioContext] # "closed"
                 THEN [ctxState EXCEPT ![audioContext] = "closed"]
                 ELSE ctxState
  /\ audioContext' = 0
  /\ audioElement' = 0
  /\ dataArray' = NullArray
  /\ bufferLength' = 0
  /\ isInitialized' = FALSE
  /\ gainParam' = NewGainParam /\ chainCtx' = 0
  /\ lastOp' = NoOp
  /\ UNCHANGED <<platformAudio, elSourced, calls, running>>

\* setVolume(volume): schedules the clamped value on the gain parameter at the
\* context's current time; nothing when there is no gain node
setVolume(volume) ==
  /\ UNCHANGED <<storageVars, playerVars>>
  /\ running = 0
  /\ gainParam' = IF gainNode # 0
                  THEN [gainParam EXCEPT !.pending = clampedVolume(volume)]
                  ELSE gainParam
  /\ lastOp' = Returned("setVolume", volume, <<>>)
  /\ UNCHANGED <<audioContext, isInitialized, sourceNode, analyserNode, gainNode,
                 dataArray, bufferLength, audioElement, platformAudio, ctxState,
                 conn, elSourced, chainCtx, calls, running>>

\* getVolume(): the gain parameter's current value, 1 when there is no gain node
getVolumeResult == IF gainNode # 0 THEN gainParam.value ELSE GainDefault

\* getFrequencyData(): a fresh zero array when the analyser or the data array is
\* missing, else the data array filled by the analyser
getFrequencyData ==
  /\ UNCHANGED <<storageVars, playerVars>>
  /\ running = 0
  /\ UNCHANGED <<audioContext, isInitialized, sourceNode, analyserNode, gainNode,
                 bufferLength, audioElement, platformAudio, ctxState, conn,
                 elSourced, gainParam, chainCtx, calls, running>>
  /\ IF analyserNode = 0 \/ dataArray.null
     THEN /\ lastOp' = Returned("getFrequencyData", 0, Uint8Array(EmptyArrayLength))
          /\ UNCHANGED dataArray
     ELSE \E m \in Magnitudes :
            /\ dataArray' = ArrayOf([i \in 1..Len(dataArray.bytes) |-> m])
            /\ lastOp' = Returned("getFrequencyData", 0, dataArray'.bytes)

\* the audio thread renders a quantum of a running context: a scheduled gain
\* value becomes the parameter's current value
renderQuantum ==
  /\ UNCHANGED <<storageVars, playerVars>>
  /\ running = 0
  /\ gainNode # 0
  /\ gainParam.pending >= 0
  /\ ctxState[chainCtx] = "running"
  /\ gainParam' = [value |-> gainParam.pending, pending |-> -1]
  /\ lastOp' = NoOp
  /\ UNCHANGED <<audioContext, isInitialized, sourceNode, analyserNode, gainNode,
                 dataArray, bufferLength, audioElement, platformAudio, ctxState,
                 conn, elSourced, chainCtx, calls, running>>

\* the platform suspends the service's running context (an interruption)
platformSuspend ==
  /\ UNCHANGED <<storageVars, playerVars>>
  /\ running = 0
  /\ audioContext # 0
  /\ ctxState[audioContext] = "running"
  /\ ctxState' = [ctxState EXCEPT ![audioContext] = "suspended"]
  /\ lastOp' = NoOp
  /\ UNCHANGED <<audioContext, isInitialized, sourceNode, analyserNode, gainNode,
                 dataArray, bufferLength, audioElement, platformAudio, conn,
                 elSourced, gainParam, chainCtx, calls, running>>

AudioNext ==
  \/ \E c \in Calls : initialize(c)
  \/ \E c \in Calls, el \in CallableElements : setupAudio(c, el)
  \/ \E c \in Calls : resumeResolved(c)
  \/ \E c \in Calls : resumeRejected(c)
  \/ \E c \in Calls : setupAudioCleanup(c)
  \/ \E c \in Calls : setupAudioCreate(c)
  \/ cleanup
  \/ destroy

ContextNext ==
  \/ AudioNext
  \/ \E c \in Calls : resumeContext(c)
  \/ platformSuspend

VolumeNext ==
  \/ AudioNext
  \/ \E v \in VolumeInputs : setVolume(v)
  \/ renderQuantum

FrequencyNext ==
  \/ AudioNext
  \/ getFrequencyData

\* ----------------------------------------------------------------------
\* Claims about AudioService
\* ----------------------------------------------------------------------

\* C1: in every reachable state at most one source->analyser->gain chain feeds
\* the output destination, and a step that connects a node starts from a state
\* in which every node of the previous chain is already disconnected.
C1_SingleChain ==
  /\ [](Cardinality(ConnectedChains) <= 1)
  /\ [][(conn' \ conn # {}) => (conn = {})]_vars

\* a second element has been bound and exactly its chain is connected
C1_Witness ==
  /\ Cardinality(elSourced) >= 2
  /\ Cardinality(ConnectedChains) = 1
  /\ gainNode \in ConnectedChains

\* C8: right after setVolume(x), for every level x, getVolume() returns
\* min(1, max(0, x)).
C8_GetVolumeIsClamped ==
  (lastOp.op = "setVolume") => (getVolumeResult = clampedVolume(lastOp.arg))

\* C9: getFrequencyData returns normally with an array of 128 entries, bound or
\* not, and with 128 zeros whenever no analyser is bound.
C9_FrequencyData ==
  (lastOp.op = "getFrequencyData") =>
     /\ lastOp.status = "ok"
     /\ Len(lastOp.data) = EmptyArrayLength
     /\ (analyserNode = 0 => lastOp.data = Uint8Array(EmptyArrayLength))

\* sampled with no analyser bound, after a chain had been bound and released
C9_Witness ==
  /\ lastOp.op = "getFrequencyData"
  /\ analyserNode = 0
  /\ elSourced # {}
  /\ ~dataArray.null

\* C10: when initialize() completes without error, the service has an audio
\* context and that context is not suspended.
C10_InitializedNotSuspended ==
  (lastOp.op = "initialize" /\ lastOp.status = "ok") =>
     (audioContext # 0 /\ ctxState[audioContext] # "suspended")

\* the contexts created and not closed
LiveContexts == {n \in Contexts : ctxState[n] \notin {"absent", "closed"}}

\* C11: between two destroy calls the service creates at most one audio
\* context, also when calls overlap an initialize that awaits resume (destroy
\* closes the one context, so at most one is ever open), and cleanup leaves
\* the context and the initialized flag as they were.
C11_OneContext ==
  /\ [](Cardinality(LiveContexts) <= 1)
  /\ [][cleanup => UNCHANGED <<audioContext, isInitialized>>]_vars

\* ======================================================================
\*                          StorageService
\* ======================================================================
\* A JavaScript number is [nan, tenths]; a string is a sequence of characters;
\* a JSON text is [json |-> the JSON value it denotes].

DefaultVolume == 7

Num(t) == [nan |-> FALSE, tenths |-> t]
NaN == [nan |-> TRUE, tenths |-> 0]

DigitChars == <<"0", "1", "2", "3", "4", "5", "6", "7", "8", "9">>
IsDigit(ch) == \E d \in 1..Len(DigitChars) : DigitChars[d] = ch
DigitValue(ch) == (CHOOSE d \in 1..Len(DigitChars) : DigitChars[d] = ch) - 1

RECURSIVE IntDigits(_)
IntDigits(n) ==
  IF n < 10 THEN <<DigitChars[n + 1]>>
  ELSE IntDigits(n \div 10) \o <<DigitChars[(n % 10) + 1]>>

\* Number.prototype.toString()
NumberToString(x) ==
  IF x.nan THEN <<"N", "a", "N">>
  ELSE LET a == IF x.tenths < 0 THEN -x.tenths ELSE x.tenths
           body == IntDigits(a \div 10) \o
                   (IF a % 10 = 0 THEN <<>> ELSE <<".", DigitChars[(a % 10) + 1]>>)
       IN  IF x.tenths < 0 THEN <<"-">> \o body ELSE body

RECURSIVE CountDigits(_, _)
CountDigits(chars, i) ==
  IF i <= Len(chars) /\ IsDigit(chars[i]) THEN 1 + CountDigits(chars, i + 1) ELSE 0

RECURSIVE DigitsValue(_)
DigitsValue(chars) ==
  IF chars = <<>> THEN 0
  ELSE 10 * DigitsValue(SubSeq(chars, 1, Len(chars) - 1)) + DigitValue(chars[Len(chars)])

\* parseFloat(string): the longest numeric prefix, NaN when there is none
parseFloat(chars) ==
  LET neg == chars # <<>> /\ chars[1] = "-"
      rest == IF neg THEN Tail(chars) ELSE chars
      n == CountDigits(rest, 1)
      frac == IF Len(rest) >= n + 2 /\ rest[n + 1] = "." /\ IsDigit(rest[n + 2])
              THEN DigitValue(rest[n + 2]) ELSE 0
      mag == 10 * DigitsValue(SubSeq(rest, 1, n)) + frac
  IN  IF n = 0 THEN NaN ELSE Num(IF neg THEN -mag ELSE mag)

\* what JSON.stringify keeps of a track: a File object is written as {}
JSONTrack(t) == [id |-> t.id, duration |-> t.duration,
                 file |-> IF t.file = "File" THEN "{}" ELSE t.file]
JSONstringifyTracks(list) == [json |-> [i \in 1..Len(list) |-> JSONTrack(list[i])]]
\* a number is written by its digits; NaN is written as null
JSONstringifyNumber(x) == IF x.nan THEN [null |-> TRUE, chars |-> <<>>]
                          ELSE [null |-> FALSE, chars |-> NumberToString(x)]
JSONparseNumber(j) == parseFloat(j.chars)
JSONstringify(value) == [json |-> value]
JSONparse(text) == text.json

\* the text "undefined", which setItem stores for JSON.stringify(undefined)
UndefinedText == [undefined |-> TRUE]

DefaultPlaylistState == [shuffle |-> FALSE, repeat |-> "none", currentIndex |-> 0]

EmptyStorage == [tracks |-> [present |-> FALSE], currentTrack |-> [present |-> FALSE],
                 volume |-> [present |-> FALSE], playlistState |-> [present |-> FALSE]]

\* localStorage.setItem(key, text): throws when the quota is exhausted
setItem(store, key, text) ==
  IF quotaExceeded THEN [threw |-> TRUE, store |-> store]
  ELSE [threw |-> FALSE, store |-> [store EXCEPT ![key] = [present |-> TRUE, text |-> text]]]

saveTracks(store, list) ==
  LET r == setItem(store, "tracks", JSONstringifyTracks(list))
  IN  [ret |-> ~r.threw, store |-> r.store]

\* JSON.parse throws on a text that is not JSON; the catch returns the default
getTracks(store) ==
  IF ~store.tracks.present \/ store.tracks.text = UndefinedText THEN <<>>
  ELSE JSONparse(store.tracks.text)

saveCurrentTrack(store, trackId) ==
  LET r == setItem(store, "currentTrack", trackId)
  IN  [ret |-> ~r.threw, store |-> r.store]

\* the stored string, or null
getCurrentTrack(store) ==
  IF store.currentTrack.present THEN [null |-> FALSE, chars |-> store.currentTrack.text]
  ELSE [null |-> TRUE, chars |-> <<>>]

saveVolume(store, volume) ==
  LET r == setItem(store, "volume", NumberToString(volume))
  IN  [ret |-> ~r.threw, store |-> r.store]

\* StorageService.getVolume
getVolume(store) ==
  IF store.volume.present THEN parseFloat(store.volume.text) ELSE Num(DefaultVolume)

savePlaylistState(store, state) ==
  LET r == setItem(store, "playlistState", JSONstringify(state))
  IN  [ret |-> ~r.threw, store |-> r.store]

getPlaylistState(store) ==
  IF ~store.playlistState.present \/ store.playlistState.text = UndefinedText
  THEN DefaultPlaylistState
  ELSE JSONparse(store.playlistState.text)

\* exportData(): the four reads bundled into one JSON document
exportData(store) ==
  JSONstringify([has |-> {"tracks", "currentTrack", "volume", "playlistState", "exportDate"},
                 tracks |-> getTracks(store),
                 currentTrack |-> getCurrentTrack(store),
                 volume |-> JSONstringifyNumber(getVolume(store)),
                 playlistState |-> getPlaylistState(store)])

importDataFalsyVolume(store, jsonString) ==
  LET data == JSONparse(jsonString)
      s1 == IF "tracks" \in data.has THEN saveTracks(store, data.tracks).store ELSE store
      s2 == IF "currentTrack" \in data.has /\ ~data.currentTrack.null
               /\ data.currentTrack.chars # <<>>
            THEN saveCurrentTrack(s1, data.currentTrack.chars).store ELSE s1
      s3 == IF "volume" \in data.has /\ ~data.volume.null
               /\ JSONparseNumber(data.volume) # Num(0)
            THEN saveVolume(s2, JSONparseNumber(data.volume)).store ELSE s2
      s4 == IF "playlistState" \in data.has
            THEN savePlaylistState(s3, data.playlistState).store ELSE s3
  IN  [ret |-> TRUE, store |-> s4]

importDataAbortOnNull(store, jsonString) ==
  LET data == JSONparse(jsonString)
      s1 == IF "tracks" \in data.has THEN saveTracks(store, data.tracks).store ELSE store
      s2 == IF "currentTrack" \in data.has /\ ~data.currentTrack.null
               /\ data.currentTrack.chars # <<>>
            THEN saveCurrentTrack(s1, data.currentTrack.chars).store ELSE s1
      volThrows == "volume" \in data.has /\ data.volume.null
      s3 == IF "volume" \in data.has /\ ~data.volume.null
            THEN saveVolume(s2, JSONparseNumber(data.volume)).store ELSE s2
      s4 == IF "playlistState" \in data.has
            THEN savePlaylistState(s3, data.playlistState).store ELSE s3
  IN  IF volThrows THEN [ret |-> FALSE, store |-> s2] ELSE [ret |-> TRUE, store |-> s4]

\* importData(jsonString): tracks, currentTrack and playlistState are written
\* when the field is truthy, the volume when it is not undefined. For a null
\* volume saveVolume is called, volume.toString() throws inside its try, and
\* saveVolume returns false with nothing written; the import goes on.
importData(store, jsonString) ==
  LET data == JSONparse(jsonString)
      s1 == IF "tracks" \in data.has THEN saveTracks(store, data.tracks).store ELSE store
      s2 == IF "currentTrack" \in data.has /\ ~data.currentTrack.null
               /\ data.currentTrack.chars # <<>>
            THEN saveCurrentTrack(s1, data.currentTrack.chars).store ELSE s1
      s3 == IF "volume" \in data.has /\ ~data.volume.null
            THEN saveVolume(s2, JSONparseNumber(data.volume)).store ELSE s2
      s4 == IF "playlistState" \in data.has
            THEN savePlaylistState(s3, data.playlistState).store ELSE s3
  IN  [ret |-> TRUE, store |-> s4]

\* what the three reads of the round trip return
Reads(store) == [tracks |-> getTracks(store), volume |-> getVolume(store),
                 playlistState |-> getPlaylistState(store)]

\* the values callers store
Track1 == [id |-> 1, duration |-> 0, file |-> "File"]
Track2 == [id |-> 2, duration |-> 5, file |-> "name"]
TrackLists == {<<>>, <<Track1>>, <<Track2>>, <<Track1, Track2>>}
VolumeLevels == {Num(0), Num(3), Num(DefaultVolume), Num(10)}
PlaylistStates == {DefaultPlaylistState,
                   [shuffle |-> TRUE, repeat |-> "all", currentIndex |-> 1]}
TrackIds == {IntDigits(1), IntDigits(12)}

NoStorageOp == [op |-> "none", ret |-> TRUE]
NoExport == [present |-> FALSE]

StorageInit ==
  /\ localStorage = EmptyStorage
  /\ quotaExceeded = FALSE
  /\ exported = NoExport
  /\ storageOp = NoStorageOp

saveTracksCall(list) ==
  /\ UNCHANGED <<audioVars, playerVars>>
  /\ localStorage' = saveTracks(localStorage, list).store
  /\ storageOp' = [op |-> "saveTracks", ret |-> saveTracks(localStorage, list).ret]
  /\ UNCHANGED <<quotaExceeded, exported>>

saveCurrentTrackCall(trackId) ==
  /\ UNCHANGED <<audioVars, playerVars>>
  /\ localStorage' = saveCurrentTrack(localStorage, trackId).store
  /\ storageOp' = [op |-> "saveCurrentTrack",
                   ret |-> saveCurrentTrack(localStorage, trackId).ret]
  /\ UNCHANGED <<quotaExceeded, exported>>

saveVolumeCall(volume) ==
  /\ UNCHANGED <<audioVars, playerVars>>
  /\ localStorage' = saveVolume(localStorage, volume).store
  /\ storageOp' = [op |-> "saveVolume", ret |-> saveVolume(localStorage, volume).ret]
  /\ UNCHANGED <<quotaExceeded, exported>>

savePlaylistStateCall(state) ==
  /\ UNCHANGED <<audioVars, playerVars>>
  /\ localStorage' = savePlaylistState(localStorage, state).store
  /\ storageOp' = [op |-> "savePlaylistState",
                   ret |-> savePlaylistState(localStorage, state).ret]
  /\ UNCHANGED <<quotaExceeded, exported>>

\* clearAllData(): removes the four keys
clearAllData ==
  /\ UNCHANGED <<audioVars, playerVars>>
  /\ localStorage' = EmptyStorage
  /\ storageOp' = [op |-> "clearAllData", ret |-> TRUE]
  /\ UNCHANGED <<quotaExceeded, exported>>

\* exportData(), the document kept by the caller together with what the reads
\* returned when it was made
exportDataCall ==
  /\ UNCHANGED <<audioVars, playerVars>>
  /\ exported' = [present |-> TRUE, text |-> exportData(localStorage),
                  S |-> Reads(localStorage)]
  /\ storageOp' = [op |-> "exportData", ret |-> TRUE]
  /\ UNCHANGED <<localStorage, quotaExceeded>>

\* importData of the kept document into the store as it is now
importDataCall ==
  /\ UNCHANGED <<audioVars, playerVars>>
  /\ exported.present
  /\ localStorage' = importData(localStorage, exported.text).store
  /\ storageOp' = [op |-> "importData", ret |-> importData(localStorage, exported.text).ret]
  /\ UNCHANGED <<quotaExceeded, exported>>

StorageNext ==
  \/ \E ts \in TrackLists : saveTracksCall(ts)
  \/ \E id \in TrackIds : saveCurrentTrackCall(id)
  \/ \E v \in VolumeLevels : saveVolumeCall(v)
  \/ \E st \in PlaylistStates : savePlaylistStateCall(st)
  \/ clearAllData
  \/ exportDataCall
  \/ importDataCall

\* ----------------------------------------------------------------------
\* Claims about StorageService
\* ----------------------------------------------------------------------

\* C7: importing an exported document, into whatever the store holds by then,
\* returns true and makes getTracks(), getVolume() and getPlaylistState()
\* return what they returned when the document was exported.
C7_ExportImportRoundTrip ==
  (storageOp.op = "importData") =>
     /\ storageOp.ret = TRUE
     /\ Reads(localStorage) = exported.S

\* an import that had to overwrite all three slots: the store held other data
C7_Witness ==
  /\ storageOp.op = "importData"
  /\ exported.S.tracks = <<JSONTrack(Track1), JSONTrack(Track2)>>
  /\ exported.S.volume = Num(0)
  /\ exported.S.playlistState # DefaultPlaylistState
  /\ localStorage.currentTrack.present

\* ----------------------------------------------------------------------
\* StorageService under failing writes, and the storage calls of App
\* ----------------------------------------------------------------------
MaxStored == 2

\* Date.now() readings
ClockReadings == {11, 12}
\* tracks handed to addTrack: without an id of their own, and with one
AddInputs == {[hasId |-> FALSE, id |-> 0, duration |-> 0, file |-> "name"],
              [hasId |-> TRUE, id |-> 2, duration |-> 5, file |-> "name"]}
\* updates handed to updateTrack: a duration, and an id
UpdateInputs == {[has |-> {"duration"}, id |-> 0, duration |-> 5],
                 [has |-> {"id"}, id |-> 12, duration |-> 0]}
StoredIds == {1, 2} \cup ClockReadings

\* addTrack(track): id from Date.now(), overridden by the fields spread from
\* track; the result of saveTracks is dropped and the new track is returned
addTrack(store, now, track) ==
  LET newTrack == [id |-> IF track.hasId THEN track.id ELSE now,
                   duration |-> track.duration, file |-> track.file]
      r == saveTracks(store, Append(getTracks(store), newTrack))
  IN  [ret |-> TRUE, store |-> r.store]

\* removeTrack(trackId): the result of saveTracks is dropped
removeTrack(store, trackId) ==
  LET r == saveTracks(store, SelectSeq(getTracks(store), LAMBDA t : t.id # trackId))
  IN  [ret |-> TRUE, store |-> r.store]

\* { ...track, ...updates }
mergeUpdates(track, updates) ==
  [id |-> IF "id" \in updates.has THEN updates.id ELSE track.id,
   duration |-> IF "duration" \in updates.has THEN updates.duration ELSE track.duration,
   file |-> track.file]

\* updateTrack(trackId, updates): false when the id is not found; otherwise
\* the result of saveTracks is dropped
updateTrack(store, trackId, updates) ==
  LET list == getTracks(store)
      found == {i \in 1..Len(list) : list[i].id = trackId}
      trackIndex == CHOOSE i \in found : \A j \in found : i <= j
      r == saveTracks(store, [list EXCEPT ![trackIndex] = mergeUpdates(list[trackIndex], updates)])
  IN  IF found = {} THEN [ret |-> FALSE, store |-> store]
      ELSE [ret |-> TRUE, store |-> r.store]

addTrackCall(now, track) ==
  /\ UNCHANGED <<audioVars, playerVars>>
  /\ Len(getTracks(localStorage)) < MaxStored
  /\ localStorage' = addTrack(localStorage, now, track).store
  /\ storageOp' = [op |-> "addTrack", ret |-> addTrack(localStorage, now, track).ret]
  /\ UNCHANGED <<quotaExceeded, exported>>

removeTrackCall(trackId) ==
  /\ UNCHANGED <<audioVars, playerVars>>
  /\ localStorage' = removeTrack(localStorage, trackId).store
  /\ storageOp' = [op |-> "removeTrack", ret |-> removeTrack(localStorage, trackId).ret]
  /\ UNCHANGED <<quotaExceeded, exported>>

updateTrackCall(trackId, updates) ==
  /\ UNCHANGED <<audioVars, playerVars>>
  /\ localStorage' = updateTrack(localStorage, trackId, updates).store
  /\ storageOp' = [op |-> "updateTrack",
                   ret |-> updateTrack(localStorage, trackId, updates).ret]
  /\ UNCHANGED <<quotaExceeded, exported>>

\* saveTracks(undefined) / savePlaylistState(undefined): JSON.stringify yields
\* undefined and setItem stores the text "undefined"
saveUndefinedCall(key) ==
  /\ UNCHANGED <<audioVars, playerVars>>
  /\ localStorage' = setItem(localStorage, key, UndefinedText).store
  /\ storageOp' = [op |-> "saveUndefined", ret |-> ~setItem(localStorage, key, UndefinedText).threw]
  /\ UNCHANGED <<quotaExceeded, exported>>

\* the three reads, with the value each returns
getTracksCall ==
  /\ UNCHANGED <<audioVars, playerVars>>
  /\ storageOp' = [op |-> "getTracks", ret |-> TRUE, value |-> getTracks(localStorage)]
  /\ UNCHANGED <<localStorage, quotaExceeded, exported>>

getVolumeCall ==
  /\ UNCHANGED <<audioVars, playerVars>>
  /\ storageOp' = [op |-> "getVolume", ret |-> TRUE, value |-> getVolume(localStorage)]
  /\ UNCHANGED <<localStorage, quotaExceeded, exported>>

getPlaylistStateCall ==
  /\ UNCHANGED <<audioVars, playerVars>>
  /\ storageOp' = [op |-> "getPlaylistState", ret |-> TRUE,
                   value |-> getPlaylistState(localStorage)]
  /\ UNCHANGED <<localStorage, quotaExceeded, exported>>

\* the store's quota runs out, or room is made again
quotaChange ==
  /\ UNCHANGED <<audioVars, playerVars>>
  /\ quotaExceeded' = ~quotaExceeded
  /\ storageOp' = NoStorageOp
  /\ UNCHANGED <<localStorage, exported>>

\* App's effect at mount: getTracks(), then storageService.getSettings(), which
\* StorageService does not define, so the call is a TypeError thrown out of
\* the effect
AppMountEffect ==
  /\ UNCHANGED <<audioVars, playerVars>>
  /\ storageOp' = [op |-> "App.mountEffect", ret |-> FALSE, threw |-> TRUE]
  /\ UNCHANGED <<localStorage, quotaExceeded, exported>>

\* App's effect on [volume], run when setVolume(volume) changed App's volume:
\* storageService.saveSettings({ volume }), which StorageService does not
\* define either; nothing is written
AppVolumeEffect(volume) ==
  /\ UNCHANGED <<audioVars, playerVars>>
  /\ storageOp' = [op |-> "App.volumeEffect", ret |-> FALSE, threw |-> TRUE,
                   volume |-> volume]
  /\ UNCHANGED <<localStorage, quotaExceeded, exported>>

StorageFaultNext ==
  \/ \E ts \in TrackLists : saveTracksCall(ts)
  \/ \E v \in VolumeLevels : saveVolumeCall(v)
  \/ \E st \in PlaylistStates : savePlaylistStateCall(st)
  \/ \E now \in ClockReadings, track \in AddInputs : addTrackCall(now, track)
  \/ \E id \in StoredIds : removeTrackCall(id)
  \/ \E id \in StoredIds, u \in UpdateInputs : updateTrackCall(id, u)
  \/ \E key \in {"tracks", "playlistState"} : saveUndefinedCall(key)
  \/ getTracksCall
  \/ getVolumeCall
  \/ getPlaylistStateCall
  \/ quotaChange
  \/ AppMountEffect
  \/ \E v \in VolumeLevels : AppVolumeEffect(v)

WriteOps == {"saveTracks", "addTrack", "removeTrack", "updateTrack", "saveVolume",
             "savePlaylistState"}

\* C12: no storage call throws, App's calls at start-up and on a volume change
\* included; a read returns its default when the key is absent or cannot be
\* read; a write reports failure whenever the store refused the write.
C12_StorageNeverThrows ==
  /\ (storageOp.op \in {"App.mountEffect", "App.volumeEffect"}) => ~storageOp.threw
  /\ (storageOp.op = "getTracks"
        /\ (~localStorage.tracks.present \/ localStorage.tracks.text = UndefinedText))
       => storageOp.value = <<>>
  /\ (storageOp.op = "getVolume" /\ ~localStorage.volume.present)
       => storageOp.value = Num(DefaultVolume)
  /\ (storageOp.op = "getPlaylistState"
        /\ (~localStorage.playlistState.present
              \/ localStorage.playlistState.text = UndefinedText))
       => storageOp.value = DefaultPlaylistState
  /\ (storageOp.op \in WriteOps /\ quotaExceeded) => storageOp.ret = FALSE

UniqueIds(list) ==
  \A i, j \in 1..Len(list) : i # j => list[i].id # list[j].id

\* C14: no playlist, persisted or in memory, holds two tracks with the same
\* identifier, whatever uploads, addTrack and updateTrack calls and imports
\* were made, two adds within one clock reading included.
C14_UniqueIds ==
  UniqueIds(getTracks(localStorage)) /\ UniqueIds(tracks)

\* the handlers of App and AudioPlayer that change the playlist
PlaylistMutations == {"App.handleFileUpload", "AudioPlayer.handleFileUpload",
                      "App.handleTrackDelete", "App.handleDurationChange"}

\* C15: after every completed playlist mutation (add, remove, duration
\* correction) getTracks() returns the application's track list, and after a
\* volume change the persisted volume is the application's volume.
C15_PersistedIsInMemory ==
  /\ (lastEvent.op \in PlaylistMutations /\ lastEvent.arg # 0)
       => getTracks(localStorage) = tracks
  /\ (storageOp.op = "App.volumeEffect") => getVolume(localStorage) = storageOp.volume

\* ----------------------------------------------------------------------
\* importData of arbitrary documents
\* ----------------------------------------------------------------------
SlotNames == {"tracks", "currentTrack", "volume", "playlistState"}

\* documents handed to importData: any subset of the four fields; the current
\* track is an id or null, the volume is 0 or null (what JSON.stringify writes
\* for NaN)
Documents ==
  {[has |-> h,
    tracks |-> <<JSONTrack(Track2)>>,
    currentTrack |-> ct,
    volume |-> v,
    playlistState |-> [shuffle |-> TRUE, repeat |-> "all", currentIndex |-> 1]] :
     h \in SUBSET SlotNames,
     ct \in {[null |-> FALSE, chars |-> IntDigits(2)], [null |-> TRUE, chars |-> <<>>]},
     v \in {JSONstringifyNumber(Num(0)), JSONstringifyNumber(NaN)}}

\* importData(jsonString) of a document from outside
importDocumentCall(doc) ==
  /\ UNCHANGED <<audioVars, playerVars>>
  /\ localStorage' = importData(localStorage, JSONstringify(doc)).store
  /\ storageOp' = [op |-> "importDocument", doc |-> doc,
                   ret |-> importData(localStorage, JSONstringify(doc)).ret]
  /\ UNCHANGED <<quotaExceeded, exported>>

ImportNext ==
  \/ \E ts \in TrackLists : saveTracksCall(ts)
  \/ \E id \in TrackIds : saveCurrentTrackCall(id)
  \/ \E v \in VolumeLevels : saveVolumeCall(v)
  \/ \E st \in PlaylistStates : savePlaylistStateCall(st)
  \/ clearAllData
  \/ \E doc \in Documents : importDocumentCall(doc)

MaxTracks == 3
MaxFiles == 2
MaxUploads == 1

\* null, for a track and for audioRef.current
NoTrack == [id |-> 0, duration |-> 0, file |-> "none"]
NoAudio == [null |-> TRUE]
NoEvent == [op |-> "none", arg |-> 0, hit |-> FALSE]
Event(op, arg, hit) == [op |-> op, arg |-> arg, hit |-> hit]

\* a file selection: each file's type starts with 'audio/' or does not
FileKinds == {"audio", "other"}
FileSelections == UNION {[1..n -> FileKinds] : n \in 1..MaxFiles}
isAudio(file) == file = "audio"
AudioFiles(files) == SelectSeq(files, isAudio)

\* the tracks built for the audio files of a selection, in selection order;
\* each gets a new identifier (Date.now() + Math.random())
NewTracks(files, fileField) ==
  [i \in 1..Len(AudioFiles(files)) |->
     [id |-> nextId + i - 1, duration |-> 0, file |-> fileField]]

\* Array.prototype.findIndex on track.id, 0-based, -1 when there is none
findIndex(ts, id) ==
  IF \E i \in 1..Len(ts) : ts[i].id = id
  THEN (CHOOSE i \in 1..Len(ts) :
          ts[i].id = id /\ \A j \in 1..(i - 1) : ts[j].id # id) - 1
  ELSE -1

\* element i of a JavaScript array
At(ts, i) == ts[i + 1]

\* tracks.filter(track => track.id !== trackId)
filterTracksKeepOnly(ts, trackId) == SelectSeq(ts, LAMBDA t : t.id = trackId)
filterTracks(ts, trackId) == SelectSeq(ts, LAMBDA t : t.id # trackId)

\* App.handleNext / App.handlePrevious: the index selected
AppNextIndex(ts, cur) ==
  LET currentIndex == findIndex(ts, cur.id)
  IN  IF currentIndex < Len(ts) - 1 THEN currentIndex + 1 ELSE 0

AppPrevIndex(ts, cur) ==
  LET currentIndex == findIndex(ts, cur.id)
  IN  IF currentIndex > 0 THEN currentIndex - 1 ELSE Len(ts) - 1

\* AudioPlayer.handleNext / AudioPlayer.handlePrevious: the index selected
PlayerNextIndex(ts, cur) ==
  LET currentIndex == findIndex(ts, cur.id)
  IN  IF currentIndex < Len(ts) - 1 THEN currentIndex + 1 ELSE 0

PlayerPreviousIndexNoWrap(ts, cur) ==
  LET currentIndex == findIndex(ts, cur.id)
  IN  IF currentIndex > 0 THEN currentIndex - 1 ELSE 0

PlayerPreviousIndex(ts, cur) ==
  LET currentIndex == findIndex(ts, cur.id)
  IN  IF currentIndex > 0 THEN currentIndex - 1 ELSE Len(ts) - 1

\* the visualizer: no frame callback scheduled and a clear canvas;
\* startVisualization draws a frame and schedules the next one;
\* stopVisualization cancels the callback and clears the canvas;
\* cancelAnimationFrame alone leaves the canvas as it is
NoVisualization == [pending |-> FALSE, drawn |-> FALSE]
startVisualization == [pending |-> TRUE, drawn |-> TRUE]
stopVisualization == [pending |-> FALSE, drawn |-> FALSE]
cancelAnimationFrame(v) == [v EXCEPT !.pending = FALSE]

\* AudioPlayer's effect on [currentTrack], run when the owner's current track
\* has changed: a non-null track is loaded by loadTrack, which replaces the
\* media element (the old one is paused first), registers the listeners with
\* the handlers of this render, and ends in its catch block, because
\* audioService.initializeContext is not a function of AudioService. Before
\* that the cleanup of the previous run cancels the scheduled frame callback
\* and calls audioService.cleanup(), which finds a service that was never set
\* up.
TrackEffect(newTracks, newCurrent) ==
  IF newCurrent = currentTrack
  THEN UNCHANGED <<isLoading, error, audioRef, visualization>>
  ELSE IF newCurrent = NoTrack
  THEN /\ visualization' = cancelAnimationFrame(visualization)
       /\ UNCHANGED <<isLoading, error, audioRef>>
  ELSE /\ visualization' = cancelAnimationFrame(visualization)
       /\ isLoading' = FALSE
       /\ error' = "Failed to load track"
       /\ audioRef' = [null |-> FALSE, src |-> newCurrent.id, playing |-> FALSE,
                       time |-> 0, tracks |-> newTracks, currentTrack |-> newCurrent]

PlayerInit ==
  /\ tracks = <<>>
  /\ currentTrack = NoTrack
  /\ app_isPlaying = FALSE
  /\ app_currentTime = 0
  /\ player_isPlaying = FALSE
  /\ player_currentTime = 0
  /\ isLoading = FALSE
  /\ error = "none"
  /\ audioRef = NoAudio
  /\ uploads = <<>>
  /\ nextId = 1
  /\ lastEvent = NoEvent
  /\ durationWrites = {}
  /\ visualization = NoVisualization

\* what a handler of App or AudioPlayer leaves alone outside the player
PlayerFrame == UNCHANGED <<audioVars, quotaExceeded, exported, storageOp, durationWrites>>

\* TrackList.handleFileInput: onFileUpload(file) for each audio file; App's
\* handleFileUpload iterates its argument, a single File is not iterable, so
\* each call rejects with a TypeError before it builds a track
TrackListHandleFileInput(files) ==
  /\ PlayerFrame
  /\ lastEvent' = Event("TrackList.handleFileInput", Len(AudioFiles(files)), FALSE)
  /\ UNCHANGED <<localStorage, tracks, currentTrack, app_isPlaying, app_currentTime,
                 player_isPlaying, player_currentTime, isLoading, error, audioRef, visualization,
                 uploads, nextId>>

\* App.handleFileUpload(files) with a list of files, up to the first await of a
\* FileReader: the call keeps the tracks of the render it was made in and the
\* files it will build tracks for
AppHandleFileUploadBegin(files) ==
  /\ PlayerFrame
  /\ AudioFiles(files) # <<>>
  /\ Len(uploads) < MaxUploads
  /\ uploads' = Append(uploads, [files |-> AudioFiles(files), tracks |-> tracks])
  /\ lastEvent' = NoEvent
  /\ UNCHANGED <<localStorage, tracks, currentTrack, app_isPlaying, app_currentTime,
                 player_isPlaying, player_currentTime, isLoading, error, audioRef, visualization,
                 nextId>>

\* App.handleFileUpload once every file is read: setTracks and saveTracks of
\* the kept tracks followed by the new ones
AppHandleFileUploadDone(u) ==
  /\ PlayerFrame
  /\ u \in 1..Len(uploads)
  /\ nextId + Len(AudioFiles(uploads[u].files)) - 1 <= MaxTracks
  /\ LET updatedTracks == uploads[u].tracks \o NewTracks(uploads[u].files, "name")
     IN  /\ tracks' = updatedTracks
         /\ localStorage' = saveTracks(localStorage, updatedTracks).store
  /\ nextId' = nextId + Len(AudioFiles(uploads[u].files))
  /\ uploads' = SubSeq(uploads, 1, u - 1) \o SubSeq(uploads, u + 1, Len(uploads))
  /\ lastEvent' = Event("App.handleFileUpload", Len(AudioFiles(uploads[u].files)), FALSE)
  /\ UNCHANGED <<currentTrack, app_isPlaying, app_currentTime, player_isPlaying,
                 player_currentTime, isLoading, error, audioRef, visualization>>

\* AudioPlayer.handleFileUpload
PlayerHandleFileUpload(files) ==
  /\ PlayerFrame
  /\ nextId + Len(AudioFiles(files)) - 1 <= MaxTracks
  /\ lastEvent' = Event("AudioPlayer.handleFileUpload", Len(AudioFiles(files)), FALSE)
  /\ UNCHANGED <<app_isPlaying, app_currentTime, player_isPlaying,
                 player_currentTime, uploads>>
  /\ IF AudioFiles(files) = <<>>
     THEN /\ isLoading' = FALSE
          /\ UNCHANGED <<localStorage, tracks, currentTrack, error, audioRef, visualization, nextId>>
     ELSE LET newTracks == NewTracks(files, "File")
              updatedTracks == tracks \o newTracks
              newCurrent == IF currentTrack = NoTrack THEN newTracks[1] ELSE currentTrack
          IN  /\ localStorage' = saveTracks(localStorage, updatedTracks).store
              /\ tracks' = updatedTracks
              /\ currentTrack' = newCurrent
              /\ nextId' = nextId + Len(newTracks)
              /\ IF newCurrent = currentTrack
                 THEN isLoading' = FALSE /\ UNCHANGED <<error, audioRef, visualization>>
                 ELSE TrackEffect(updatedTracks, newCurrent)

\* App.handleTrackSelect(track), from a click on a row of the list
AppHandleTrackSelect(i) ==
  /\ PlayerFrame
  /\ i \in 1..Len(tracks)
  /\ lastEvent' = NoEvent
  /\ UNCHANGED <<localStorage, tracks, player_isPlaying, player_currentTime,
                 uploads, nextId>>
  /\ IF currentTrack.id # tracks[i].id
     THEN /\ currentTrack' = tracks[i]
          /\ app_isPlaying' = FALSE
          /\ app_currentTime' = 0
          /\ TrackEffect(tracks, tracks[i])
     ELSE UNCHANGED <<currentTrack, app_isPlaying, app_currentTime, isLoading,
                      error, audioRef, visualization>>

\* App.handleTrackDelete(trackId), from the delete button of a row
AppHandleTrackDelete(i) ==
  /\ PlayerFrame
  /\ i \in 1..Len(tracks)
  /\ LET trackId == tracks[i].id
         updatedTracks == filterTracks(tracks, trackId)
     IN  /\ tracks' = updatedTracks
         /\ localStorage' = saveTracks(localStorage, updatedTracks).store
         /\ lastEvent' = Event("App.handleTrackDelete", trackId, currentTrack.id = trackId)
         /\ IF currentTrack.id = trackId
            THEN /\ currentTrack' = NoTrack
                 /\ app_isPlaying' = FALSE
                 /\ app_currentTime' = 0
                 /\ TrackEffect(updatedTracks, NoTrack)
            ELSE UNCHANGED <<currentTrack, app_isPlaying, app_currentTime, isLoading,
                             error, audioRef, visualization>>
  /\ UNCHANGED <<player_isPlaying, player_currentTime, uploads, nextId>>

\* App.handlePlayPause
AppHandlePlayPause ==
  /\ PlayerFrame
  /\ app_isPlaying' = IF currentTrack # NoTrack THEN ~app_isPlaying ELSE app_isPlaying
  /\ lastEvent' = NoEvent
  /\ UNCHANGED <<localStorage, tracks, currentTrack, app_currentTime,
                 player_isPlaying, player_currentTime, isLoading, error, audioRef, visualization,
                 uploads, nextId>>

\* App.handleSeek(time)
AppHandleSeek(time) ==
  /\ PlayerFrame
  /\ app_currentTime' = time
  /\ lastEvent' = NoEvent
  /\ UNCHANGED <<localStorage, tracks, currentTrack, app_isPlaying,
                 player_isPlaying, player_currentTime, isLoading, error, audioRef, visualization,
                 uploads, nextId>>

\* App.handleNext
AppHandleNext ==
  /\ PlayerFrame
  /\ lastEvent' = Event("App.handleNext", findIndex(tracks, currentTrack.id), FALSE)
  /\ UNCHANGED <<localStorage, tracks, app_isPlaying, player_isPlaying,
                 player_currentTime, uploads, nextId>>
  /\ IF Len(tracks) = 0
     THEN UNCHANGED <<currentTrack, app_currentTime, isLoading, error, audioRef, visualization>>
     ELSE /\ currentTrack' = At(tracks, AppNextIndex(tracks, currentTrack))
          /\ app_currentTime' = 0
          /\ TrackEffect(tracks, At(tracks, AppNextIndex(tracks, currentTrack)))

\* App.handlePrevious
AppHandlePrevious ==
  /\ PlayerFrame
  /\ lastEvent' = Event("App.handlePrevious", findIndex(tracks, currentTrack.id), FALSE)
  /\ UNCHANGED <<localStorage, tracks, app_isPlaying, player_isPlaying,
                 player_currentTime, uploads, nextId>>
  /\ IF Len(tracks) = 0
     THEN UNCHANGED <<currentTrack, app_currentTime, isLoading, error, audioRef, visualization>>
     ELSE /\ currentTrack' = At(tracks, AppPrevIndex(tracks, currentTrack))
          /\ app_currentTime' = 0
          /\ TrackEffect(tracks, At(tracks, AppPrevIndex(tracks, currentTrack)))

\* AudioPlayer.handleNext, from the button: the handler of the current render
PlayerHandleNext ==
  /\ PlayerFrame
  /\ lastEvent' = Event("AudioPlayer.handleNext", findIndex(tracks, currentTrack.id), FALSE)
  /\ UNCHANGED <<localStorage, tracks, app_isPlaying, app_currentTime,
                 player_isPlaying, player_currentTime, uploads, nextId>>
  /\ IF Len(tracks) = 0
     THEN UNCHANGED <<currentTrack, isLoading, error, audioRef, visualization>>
     ELSE /\ currentTrack' = At(tracks, PlayerNextIndex(tracks, currentTrack))
          /\ TrackEffect(tracks, At(tracks, PlayerNextIndex(tracks, currentTrack)))

\* AudioPlayer.handlePrevious, from the button
PlayerHandlePrevious ==
  /\ PlayerFrame
  /\ lastEvent' = Event("AudioPlayer.handlePrevious",
                        findIndex(tracks, currentTrack.id), FALSE)
  /\ UNCHANGED <<localStorage, tracks, app_isPlaying, app_currentTime,
                 player_isPlaying, player_currentTime, uploads, nextId>>
  /\ IF Len(tracks) = 0
     THEN UNCHANGED <<currentTrack, isLoading, error, audioRef, visualization>>
     ELSE /\ currentTrack' = At(tracks, PlayerPreviousIndex(tracks, currentTrack))
          /\ TrackEffect(tracks, At(tracks, PlayerPreviousIndex(tracks, currentTrack)))

\* AudioPlayer.handlePlayPause, from the button, which is disabled without a
\* current track: pause when its flag is set, else play(), which the platform
\* may reject; the effect on [isPlaying] starts or stops the visualizer
PlayerHandlePlayPause ==
  /\ PlayerFrame
  /\ currentTrack # NoTrack
  /\ lastEvent' = NoEvent
  /\ UNCHANGED <<localStorage, tracks, currentTrack, app_isPlaying, app_currentTime,
                 player_currentTime, isLoading, uploads, nextId>>
  /\ IF audioRef.null \/ isLoading
     THEN UNCHANGED <<player_isPlaying, error, audioRef, visualization>>
     ELSE IF player_isPlaying
     THEN /\ audioRef' = [audioRef EXCEPT !.playing = FALSE]
          /\ player_isPlaying' = FALSE
          /\ visualization' = stopVisualization
          /\ UNCHANGED error
     ELSE \/ /\ audioRef' = [audioRef EXCEPT !.playing = TRUE]
             /\ player_isPlaying' = TRUE
             /\ visualization' = startVisualization
             /\ UNCHANGED error
          \/ /\ error' = "Playback failed"
             /\ UNCHANGED <<player_isPlaying, audioRef, visualization>>

\* the 'timeupdate' listener of the media element in audioRef
TimeUpdate ==
  /\ PlayerFrame
  /\ ~audioRef.null
  /\ audioRef.playing
  /\ audioRef.time = 0
  /\ audioRef' = [audioRef EXCEPT !.time = 1]
  /\ player_currentTime' = 1
  /\ lastEvent' = NoEvent
  /\ UNCHANGED <<localStorage, tracks, currentTrack, app_isPlaying, app_currentTime,
                 player_isPlaying, isLoading, error, uploads, nextId, visualization>>

\* the 'ended' listener of the media element in audioRef: the handleNext of
\* the render in which loadTrack registered it, with that render's tracks and
\* currentTrack
Ended ==
  /\ PlayerFrame
  /\ ~audioRef.null
  /\ audioRef.playing
  /\ lastEvent' = Event("ended", findIndex(tracks, currentTrack.id), FALSE)
  /\ UNCHANGED <<localStorage, tracks, app_isPlaying, app_currentTime,
                 player_isPlaying, player_currentTime, uploads, nextId>>
  /\ IF Len(audioRef.tracks) = 0
     THEN /\ audioRef' = [audioRef EXCEPT !.playing = FALSE]
          /\ UNCHANGED <<currentTrack, isLoading, error, visualization>>
     ELSE LET next == At(audioRef.tracks,
                         PlayerNextIndex(audioRef.tracks, audioRef.currentTrack))
          IN  /\ currentTrack' = next
              /\ IF next = currentTrack
                 THEN /\ audioRef' = [audioRef EXCEPT !.playing = FALSE]
                      /\ UNCHANGED <<isLoading, error, visualization>>
                 ELSE TrackEffect(tracks, next)

\* the 'error' listener of the media element in audioRef (the source cannot be
\* decoded or fetched): the element stops, the message is set
MediaError ==
  /\ PlayerFrame
  /\ ~audioRef.null
  /\ error # "Failed to load audio file"
  /\ audioRef' = [audioRef EXCEPT !.playing = FALSE]
  /\ error' = "Failed to load audio file"
  /\ isLoading' = FALSE
  /\ lastEvent' = NoEvent
  /\ UNCHANGED <<localStorage, tracks, currentTrack, app_isPlaying, app_currentTime,
                 player_isPlaying, player_currentTime, uploads, nextId, visualization>>

\* a scheduled frame callback runs: draw() paints the spectrum that
\* audioService.getFrequencyData() returns and schedules itself again
AnimationFrame ==
  /\ PlayerFrame
  /\ visualization.pending
  /\ visualization' = [pending |-> TRUE, drawn |-> TRUE]
  /\ lastEvent' = NoEvent
  /\ UNCHANGED <<localStorage, tracks, currentTrack, app_isPlaying, app_currentTime,
                 player_isPlaying, player_currentTime, isLoading, error, audioRef,
                 uploads, nextId>>

\* App.handleDurationChange(newDuration): the duration is written into the
\* current track's record when the current track's duration is 0; the new
\* current track object makes AudioPlayer's effect load it again
AppHandleDurationChange(newDuration) ==
  /\ UNCHANGED <<audioVars, quotaExceeded, exported, storageOp>>
  /\ UNCHANGED <<app_isPlaying, app_currentTime, player_isPlaying,
                 player_currentTime, uploads, nextId>>
  /\ IF currentTrack # NoTrack /\ currentTrack.duration = 0
     THEN LET updatedTrack == [currentTrack EXCEPT !.duration = newDuration]
              updatedTracks == [i \in 1..Len(tracks) |->
                                  IF tracks[i].id = currentTrack.id
                                  THEN updatedTrack ELSE tracks[i]]
          IN  /\ tracks' = updatedTracks
              /\ currentTrack' = updatedTrack
              /\ localStorage' = saveTracks(localStorage, updatedTracks).store
              /\ durationWrites' = durationWrites \cup {currentTrack.id}
              /\ lastEvent' = Event("App.handleDurationChange", newDuration, TRUE)
              /\ TrackEffect(updatedTracks, updatedTrack)
     ELSE /\ lastEvent' = Event("App.handleDurationChange", newDuration, FALSE)
          /\ UNCHANGED <<tracks, currentTrack, localStorage, durationWrites,
                         isLoading, error, audioRef, visualization>>

\* the handlers that work on the playlist of the current render
PlaylistNext ==
  \/ \E files \in FileSelections : PlayerHandleFileUpload(files)
  \/ \E i \in 1..MaxTracks : AppHandleTrackSelect(i)
  \/ \E i \in 1..MaxTracks : AppHandleTrackDelete(i)
  \/ AppHandlePlayPause
  \/ \E time \in {0, 1} : AppHandleSeek(time)
  \/ AppHandleNext
  \/ AppHandlePrevious
  \/ PlayerHandleNext
  \/ PlayerHandlePrevious
  \/ PlayerHandlePlayPause
  \/ TimeUpdate

\* the playlist handlers with the media element's 'ended' and 'error' events
\* and the visualizer's frame callback
PlaybackNext ==
  \/ PlaylistNext
  \/ Ended
  \/ MediaError
  \/ AnimationFrame

\* decoded durations handed to handleDurationChange
Durations == {5, 7}

\* uploads through App, selection, and metadata arriving for the current track
MetadataNext ==
  \/ \E files \in FileSelections : AppHandleFileUploadBegin(files)
  \/ \E u \in 1..MaxUploads : AppHandleFileUploadDone(u)
  \/ \E i \in 1..MaxTracks : AppHandleTrackSelect(i)
  \/ \E d \in Durations : AppHandleDurationChange(d)

\* the three ways a file selection reaches the playlist, with selection and
\* deletion
UploadNext ==
  \/ \E files \in FileSelections : TrackListHandleFileInput(files)
  \/ \E files \in FileSelections : AppHandleFileUploadBegin(files)
  \/ \E u \in 1..MaxUploads : AppHandleFileUploadDone(u)
  \/ \E files \in FileSelections : PlayerHandleFileUpload(files)
  \/ \E i \in 1..MaxTracks : AppHandleTrackSelect(i)
  \/ \E i \in 1..MaxTracks : AppHandleTrackDelete(i)

\* ----------------------------------------------------------------------
\* Properties of the playlist handlers
\* ----------------------------------------------------------------------

\* C2: when 'ended' fires for the current track at position i of a playlist
\* of n >= 1 tracks, the current track becomes the track at position
\* (i+1) mod n of the playlist as it stands at that moment; when the playlist
\* is empty at that moment there is no current track afterwards.
C2_EndedAdvances ==
  [][(lastEvent'.op = "ended") =>
       LET n == Len(tracks)
           i == findIndex(tracks, currentTrack.id)
       IN  IF n = 0 THEN currentTrack' = NoTrack
           ELSE (i >= 0 /\ audioRef.src = currentTrack.id)
                  => currentTrack' = At(tracks, (i + 1) % n)]_vars

\* C3: with the current track at position i of a playlist of n >= 1 tracks,
\* Next selects the track at position (i+1) mod n and Previous the track at
\* position (i-1) mod n, for the handlers of App and of AudioPlayer.
C3_NextPreviousWrap ==
  [][LET n == Len(tracks)
         i == findIndex(tracks, currentTrack.id)
     IN  (n >= 1 /\ i >= 0) =>
           /\ (lastEvent'.op \in {"App.handleNext", "AudioPlayer.handleNext"})
                => currentTrack' = At(tracks, (i + 1) % n)
           /\ (lastEvent'.op \in {"App.handlePrevious", "AudioPlayer.handlePrevious"})
                => currentTrack' = At(tracks, (i - 1 + n) % n)]_vars

\* Previous was pressed on the first of three tracks and the last is current
C3_Witness ==
  /\ lastEvent.op = "AudioPlayer.handlePrevious"
  /\ lastEvent.arg = 0
  /\ Len(tracks) = 3
  /\ currentTrack = tracks[3]

\* C16: when the current track is not in a non-empty playlist (it was deleted,
\* or nothing is selected), Next and Previous both select the first track.
C16_NotFoundSelectsFirst ==
  [][(/\ Len(tracks) >= 1
      /\ findIndex(tracks, currentTrack.id) = -1
      /\ lastEvent'.op \in {"App.handleNext", "AudioPlayer.handleNext",
                            "App.handlePrevious", "AudioPlayer.handlePrevious"})
       => currentTrack' = tracks[1]]_vars

\* C17: once loadTrack has finished for a selected track, its media element is
\* the one in audioRef, the audio graph's node chain is bound to a media
\* element (setupAudio was applied) and no load error is reported.
C17_LoadBindsGraph ==
  (~audioRef.null /\ ~isLoading) =>
    /\ audioRef.src = audioRef.currentTrack.id
    /\ audioElement # 0
    /\ sourceNode # 0
    /\ gainNode \in ConnectedChains
    /\ error # "Failed to load track"

\* C18: when metadata arrives for the current track, its duration is written
\* into that track's record only if the stored duration was 0, and no track's
\* duration is written twice; the write keeps every identifier and position
\* and every other track.
C18_DurationWrittenOnce ==
  [][(lastEvent'.op = "App.handleDurationChange") =>
       /\ Len(tracks') = Len(tracks)
       /\ \A i \in 1..Len(tracks) :
            /\ tracks'[i].id = tracks[i].id
            /\ tracks'[i].file = tracks[i].file
            /\ (tracks'[i] # tracks[i]) =>
                 /\ tracks[i].id = currentTrack.id
                 /\ tracks[i].duration = 0
                 /\ tracks[i].id \notin durationWrites]_vars

\* C19: from a state with an error message, selecting a different track leads
\* to a state without error message in which that track is loaded and can be
\* played.
C19_ErrorRecovery ==
  [][(/\ error # "none"
      /\ currentTrack' # NoTrack
      /\ currentTrack'.id # currentTrack.id)
       => /\ error' = "none"
          /\ ~audioRef'.null
          /\ audioRef'.src = currentTrack'.id
          /\ ~isLoading']_vars

\* the media element in audioRef is playing
Playing == ~audioRef.null /\ audioRef.playing

\* C20: a frame callback of the visualizer is scheduled only while the player
\* is playing, and once playing has stopped (pause, track switch, natural end,
\* deletion of the current track, error) the canvas is clear.
C20_VisualizationOnlyWhilePlaying ==
  /\ visualization.pending => Playing
  /\ ~Playing => ~visualization.drawn

\* C21: in every reachable state the current track is null or a track of the
\* current track list, whatever uploads, deletions, selections, Next/Previous
\* and 'ended' events (handled by the listener registered at load) took place.
C21_CurrentTrackInList ==
  \/ currentTrack = NoTrack
  \/ \E i \in 1..Len(tracks) : tracks[i].id = currentTrack.id

\* C22: AudioPlayer's isPlaying flag is true only while the media element in
\* audioRef is playing; after a track switch, a natural end or a media error
\* it is false until a play request succeeds.
C22_IsPlayingTruthful ==
  player_isPlaying => Playing

\* C4: after handleTrackDelete with the id of the current track there is no
\* current track, the playing flag is false, no media element is still
\* playing and the current time is 0.
C4_DeleteCurrentIsEmpty ==
  (lastEvent.op = "App.handleTrackDelete" /\ lastEvent.hit) =>
    /\ currentTrack = NoTrack
    /\ app_isPlaying = FALSE
    /\ app_currentTime = 0
    /\ (audioRef.null \/ ~audioRef.playing)

\* C5: deleting a track that is not the current track removes exactly that
\* track, keeps the order of the others, and leaves the current track, the
\* playing state and the current time as they were.
C5_DeleteOtherIsExact ==
  [][(lastEvent'.op = "App.handleTrackDelete" /\ ~lastEvent'.hit) =>
       /\ Len(tracks') = Len(tracks) - 1
       /\ \E i \in 1..Len(tracks) :
            /\ tracks[i].id = lastEvent'.arg
            /\ tracks' = SubSeq(tracks, 1, i - 1) \o SubSeq(tracks, i + 1, Len(tracks))
       /\ UNCHANGED <<currentTrack, app_isPlaying, app_currentTime,
                      player_isPlaying, player_currentTime, audioRef>>]_vars

\* the second of two tracks was deleted while the first was playing
C5_Witness ==
  /\ lastEvent.op = "App.handleTrackDelete"
  /\ ~lastEvent.hit
  /\ Len(tracks) = 1
  /\ currentTrack = tracks[1]
  /\ lastEvent.arg > currentTrack.id
  /\ app_isPlaying
  /\ ~audioRef.null
  /\ audioRef.playing
  /\ player_currentTime = 1

\* C6: a selection with k audio files turns a playlist of n tracks into one of
\* n+k tracks, the new ones after the old ones, through TrackList's per-file
\* calls as through the two handleFileUpload handlers; and with no current
\* track before, the first new track is the current track afterwards.
C6_UploadAppends ==
  [][(/\ lastEvent'.op \in {"TrackList.handleFileInput", "App.handleFileUpload",
                            "AudioPlayer.handleFileUpload"}
      /\ lastEvent'.arg >= 1) =>
       LET n == Len(tracks)
           k == lastEvent'.arg
       IN  /\ Len(tracks') = n + k
           /\ SubSeq(tracks', 1, n) = tracks
           /\ \A j \in (n + 1)..(n + k) : findIndex(tracks, tracks'[j].id) = -1
           /\ (currentTrack = NoTrack) => (currentTrack' = tracks'[n + 1])]_vars

\* ======================================================================
\*                          Specifications
\* ======================================================================

Init == AudioInit /\ StorageInit /\ PlayerInit
InitPlatformAudio == Init /\ platformAudio = TRUE

\* the service's lifecycle: contexts and node chains
SpecAudio == Init /\ [][AudioNext]_vars

\* the lifecycle with the context's power state
SpecContext == Init /\ [][ContextNext]_vars

\* the lifecycle with the volume calls
SpecVolume == Init /\ [][VolumeNext]_vars

\* the lifecycle with the sampling call
SpecFrequency == Init /\ [][FrequencyNext]_vars

\* the StorageService calls on one localStorage
SpecStorage == InitPlatformAudio /\ [][StorageNext]_vars

\* the playlist and playback handlers of App, AudioPlayer and TrackList
SpecStorageFault == InitPlatformAudio /\ [][StorageFaultNext]_vars
SpecImport == InitPlatformAudio /\ [][ImportNext]_vars
SpecPlaylist == InitPlatformAudio /\ [][PlaylistNext]_vars
SpecPlayback == InitPlatformAudio /\ [][PlaybackNext]_vars
SpecUpload == InitPlatformAudio /\ [][UploadNext]_vars
SpecMetadata == InitPlatformAudio /\ [][MetadataNext]_vars

====
